---- MODULE Spec2Model ----
(***************************************************************************)
(* A model of the media download controller (fetchMedia and the helpers   *)
(* it calls): capability probes, the yt-dlp extraction stage, the image   *)
(* fallback, the direct HTTP fetch, and the error middleware that turns a  *)
(* thrown error into a response.                                           *)
(*                                                                         *)
(* Strings the code inspects with includes/startsWith are sequences of     *)
(* tokens; the substrings the code looks for are tokens of their own, so   *)
(* includes is membership of a token and startsWith is a prefix test.      *)
(*                                                                         *)
(* The controller exists in two revisions with the same fetchMedia; the    *)
(* model follows the later one (write-permission test, empty-file test,    *)
(* bot-detection status 429, getYtDlpPath).                                *)
(*                                                                         *)
(* Spec runs one request through fetchMedia; HelperSpec applies one helper *)
(* (getExtensionFromContentType, the format selection of downloadWithYtDlp,*)
(* errorMiddleware) to one argument, with no request running.             *)
(* EnvSpec runs one request on a machine where `which` may be missing, a   *)
(* thumbnail may be empty and a call made without a timeout may never      *)
(* settle. ConcSpec runs two requests at once in the same directory.       *)
(***************************************************************************)
EXTENDS Integers, Sequences, FiniteSets, TLC

\* ------------------------------------------------------------------ bounds
\* crypto.randomBytes(8) draws one of MaxHex values.
MaxHex == 2
\* File and body sizes range over 0..MaxSize.
MaxSize == 1
\* The image invocation writes at most MaxImages files.
MaxImages == 2
\* A content-type header carries at most MaxParams parameters after the type.
MaxParams == 2

\* Request ids; Spec runs request 1 alone, the others stay "Off".
Requests == {1, 2}
Sizes == 0..MaxSize

\* ------------------------------------------------------------ string helpers
\* The phrases the code looks for that occur inside a longer token.
PhrasesIn(tok) ==
  CASE tok = "https://x.example/only images/1" -> {"only images"}
    [] OTHER -> {}

Includes(s, tok) == \E i \in 1..Len(s) : s[i] = tok \/ tok \in PhrasesIn(s[i])

StartsWith(s, p) == Len(s) >= Len(p) /\ SubSeq(s, 1, Len(p)) = p

Last(s) == s[Len(s)]

\* crypto.randomBytes(8).toString("hex")
HexString(h) == ToString(h)

\* ------------------------------------------------------------------- paths
Join(dir, name) == [dir |-> dir, name |-> name]

Dirname(p) == p.dir

DotExts == {".mp4", ".mov", ".webm", ".avi", ".mkv", ".jpg", ".png", ".gif", ".webp", ".bin", ".part", ".MKV"}

\* path.extname of a file name: the last dot-part, unless the name is only that.
Extname(name) == IF Len(name) > 1 /\ Last(name) \in DotExts THEN Last(name) ELSE ""

\* path.join(process.cwd(), "public"): the directory express.static serves.
staticRoot == <<"public">>

\* path.join(process.cwd(), "public", "media")
mediaDir == staticRoot \o <<"media">>

\* path.join(mediaDir, "temp")
tempPath == Join(mediaDir, <<"temp">>)

\* ------------------------------------------------------------------ errors
NoError == [isApp |-> FALSE, message |-> <<>>, statusCode |-> 0, stderr |-> <<>>]

\* new AppError(message, statusCode)
AppError(message, statusCode) ==
  [isApp |-> TRUE, message |-> message, statusCode |-> statusCode, stderr |-> <<>>]

\* new Error(message)
PlainError(message) ==
  [isApp |-> FALSE, message |-> message, statusCode |-> 0, stderr |-> <<>>]

\* The error execAsync rejects with: "Command failed: <cmd>\n<stderr>".
ExecError(cmd, stderr) ==
  [isApp |-> FALSE, message |-> <<"Command failed: ">> \o cmd \o stderr,
   statusCode |-> 0, stderr |-> stderr]

\* What the external tool can print on its diagnostic stream when it fails.
\* The empty stream is a kill by timeout.
ToolStderr ==
  { <<>>,
    <<"ERROR: Unsupported URL">>,
    <<"ERROR: ", "No video could be found", " in this tweet">>,
    <<"ERROR: ", "Sign in to confirm", " you are not a ", "bot">> }

\* What the tool can print on stderr when it exits with success.
ToolWarnings ==
  { <<>>,
    <<"WARNING: ", "Sign in to confirm", " you are not a ", "bot">>,
    <<"WARNING: ", "login required">>,
    <<"WARNING: ", "rate-limit">> }

\* ---------------------------------------------------------------- requests
\* The url of the body: empty, an ordinary one, one whose text holds a phrase the
\* error classification looks for.
Urls == {"", "https://x.example/post/1", "https://x.example/only images/1"}

NoUrl == "undefined"

\* req.body: url may be absent; the two flags may be absent (defaults apply). The
\* url that holds a phrase comes with both flags absent.
Bodies ==
  [url : (Urls \ {"https://x.example/only images/1"}) \cup {NoUrl},
   useYtDlp : {"undefined", "true", "false"},
   downloadImages : {"undefined", "true", "false"}]
    \cup {[url |-> "https://x.example/only images/1", useYtDlp |-> "undefined",
           downloadImages |-> "undefined"]}

\* A presence test that lets the empty string through (url !== undefined).
TruthyEmptyPasses(v) == v \notin {NoUrl, "false"}

\* JavaScript truthiness of a body field.
Truthy(v) == v \notin {NoUrl, "", "false"}

\* const { url, useYtDlp = true, downloadImages = false } = req.body
Destructure(b) ==
  [url |-> b.url,
   useYtDlp |-> IF b.useYtDlp = "undefined" THEN "true" ELSE b.useYtDlp,
   downloadImages |-> IF b.downloadImages = "undefined" THEN "false" ELSE b.downloadImages]

\* -------------------------------------------------------------- commands
WhichCommand == <<"which", "yt-dlp">>

\* getYtDlpPath: the trimmed stdout of `which yt-dlp`, or "yt-dlp" when it fails.
GetYtDlpPath(whichOk) == IF whichOk THEN "/usr/local/bin/yt-dlp" ELSE "yt-dlp"

VersionCommand(ytDlpPath) == <<ytDlpPath, "--version">>

FFmpegCommand == <<"ffmpeg", "-version">>

InfoCommand(ytDlpPath, url) == <<ytDlpPath, "--dump-json", "--no-playlist", url>>

\* `temp_${crypto.randomBytes(8).toString("hex")}`
TempFilename(h) == <<"temp_", HexString(h)>>

\* A format selection without the test for a still image.
FormatSelectionNoImageTest(info, hasFFmpeg) ==
  IF hasFFmpeg
    THEN "bestvideo[height<=1080][ext=mp4]+bestaudio[ext=m4a]/bestvideo[height<=1080]+bestaudio/best[height<=1080]/best"
    ELSE "best[height<=1080]/best"

\* Format selection of downloadWithYtDlp.
FormatSelection(info, hasFFmpeg) ==
  IF info.ext \in {"jpg", "png", "webp"}
    THEN "best"
    ELSE IF hasFFmpeg
      THEN "bestvideo[height<=1080][ext=mp4]+bestaudio[ext=m4a]/bestvideo[height<=1080]+bestaudio/best[height<=1080]/best"
      ELSE "best[height<=1080]/best"

DownloadCommand(ytDlpPath, info, hasFFmpeg, outputDir, tempFilename, url) ==
  <<ytDlpPath, "--format", FormatSelection(info, hasFFmpeg)>>
    \o (IF hasFFmpeg THEN <<"--merge-output-format mp4">> ELSE <<>>)
    \o <<"--no-playlist", "--no-warnings", "--newline", "--output">>
    \o outputDir \o tempFilename \o <<".%(ext)s">> \o <<url>>

ImageCommand(ytDlpPath, outputDir, tempFilename, url) ==
  <<ytDlpPath, "--format best", "--write-thumbnail", "--skip-download", "--output">>
    \o outputDir \o tempFilename \o <<"_%(autonumber)s.%(ext)s">> \o <<url>>

AltImageCommand(ytDlpPath, outputDir, tempFilename, url) ==
  <<ytDlpPath, "--no-video", "--write-thumbnail", "--convert-thumbnails jpg", "--output">>
    \o outputDir \o tempFilename \o <<"_%(autonumber)s.%(ext)s">> \o <<url>>

\* ------------------------------------------------------- error classification
\* The stderr inspection of getMediaInfo after a successful exit.
InfoStderrError(stderr) ==
  IF Includes(stderr, "Sign in to confirm")
    THEN PlainError(<<"YouTube ", "bot", " detection triggered. Try adding cookies or wait before retrying.">>)
  ELSE IF Includes(stderr, "login required")
    THEN PlainError(<<"Login required for this platform. Use --cookies-from-browser option.">>)
  ELSE IF Includes(stderr, "rate-limit")
    THEN PlainError(<<"Rate limit reached. Please wait before trying again.">>)
  ELSE NoError

\* The catch block of getMediaInfo.
InfoCatch(err) ==
  IF Includes(err.message, "No video could be found")
    THEN AppError(<<"This post contains ", "only images",
                    ". Please use the image download endpoint or specify you want images.">>, 400)
    ELSE AppError(<<"Failed to extract media info: ">> \o err.message, 400)

\* A catch block that takes a failure with an empty diagnostic stream for a post
\* without video.
DownloadCatchSilentIsNoVideo(err) ==
  IF Includes(err.message, "No video could be found") \/ err.stderr = <<>>
    THEN AppError(<<"This post contains ", "only images", ", not videos">>, 400)
  ELSE IF err.stderr # <<>> /\ Includes(err.stderr, "bot")
    THEN AppError(<<"Bot detection triggered. Please wait a few minutes before retrying.">>, 429)
  ELSE AppError(<<"Failed to download media: ">> \o err.message, 502)

\* The catch block of downloadWithYtDlp.
DownloadCatch(err) ==
  IF Includes(err.message, "No video could be found")
    THEN AppError(<<"This post contains ", "only images", ", not videos">>, 400)
  ELSE IF err.stderr # <<>> /\ Includes(err.stderr, "bot")
    THEN AppError(<<"Bot detection triggered. Please wait a few minutes before retrying.">>, 429)
  ELSE AppError(<<"Failed to download media: ">> \o err.message, 502)

\* The catch block of downloadImagesFromPost.
ImagesCatch(err) == AppError(<<"Failed to download images: ">> \o err.message, 502)

\* The catch block around the direct download in fetchMedia.
FinalCatch(err) == AppError(<<"Failed to download media. ">> \o err.message, 502)

\* Only the request's flag sends a failed extraction to the image fallback.
WantsImagesFlagOnly(err, downloadImages) == Truthy(downloadImages)

\* The test that sends a failed extraction to the image fallback.
WantsImages(err, downloadImages) ==
  Includes(err.message, "only images") \/ Truthy(downloadImages)

\* ------------------------------------------------------------ content types
\* A content-type header is a sequence of tokens; <<>> is an absent header.
ContentTypes ==
  { <<>>, <<"video/mp4">>, <<"video/quicktime">>, <<"video/webm">>, <<"video/x-matroska">>,
    <<"image/jpeg">>, <<"image/png">>, <<"image/gif">>, <<"image/webp">>, <<"image/svg+xml">>,
    <<"text/html", "; charset=utf-8">>, <<"VIDEO/MP4">>, <<"application/x-", "video/mp4">>,
    <<"application/vnd.3gpp.mcvideo-info+xml">>, <<"application/vnd.oasis.opendocument.image">> }

\* Parameters that can follow the type in the header.
HeaderParams == {"; charset=utf-8", "; codecs=avc1"}

RECURSIVE ParamSeqs(_)
ParamSeqs(n) ==
  IF n = 0 THEN {<<>>}
  ELSE ParamSeqs(n - 1) \cup {Append(ps, p) : ps \in ParamSeqs(n - 1), p \in HeaderParams}

\* The values of response.headers.get("content-type"): null, or a type and parameters.
HeaderValues == {<<>>} \cup {ct \o ps : ct \in ContentTypes \ {<<>>}, ps \in ParamSeqs(MaxParams)}

\* String.prototype.toLowerCase on one token.
LowerToken(t) == IF t = "VIDEO/MP4" THEN "video/mp4" ELSE t

ToLowerCase(s) == [i \in 1..Len(s) |-> LowerToken(s[i])]

\* The keys getExtensionFromContentType looks for that occur inside a token.
KeysIn(t) ==
  CASE t = "video/mp4" -> {"video/mp4", "video"}
    [] t = "video/quicktime" -> {"video/quicktime", "video"}
    [] t = "video/webm" -> {"video/webm", "video"}
    [] t = "video/x-matroska" -> {"video"}
    [] t = "VIDEO/MP4" -> {"VIDEO/MP4", "VIDEO"}
    [] t = "image/jpeg" -> {"image/jpeg", "image"}
    [] t = "image/png" -> {"image/png", "image"}
    [] t = "image/gif" -> {"image/gif", "image"}
    [] t = "image/webp" -> {"image/webp", "image"}
    [] t = "image/svg+xml" -> {"image"}
    [] t = "application/vnd.3gpp.mcvideo-info+xml" -> {"video"}
    [] t = "application/vnd.oasis.opendocument.image" -> {"image"}
    [] OTHER -> {}

\* String.prototype.includes on a content type.
TypeIncludes(s, key) == \E i \in 1..Len(s) : key \in KeysIn(s[i])

\* String.prototype.startsWith on a content type.
TypeStartsWith(s, key) == Len(s) > 0 /\ key \in KeysIn(s[1])

getExtensionFromContentType(contentType) ==
  IF contentType = <<>> THEN ".bin"
  ELSE LET type == ToLowerCase(contentType) IN
    IF TypeIncludes(type, "video/mp4") THEN ".mp4"
    ELSE IF TypeIncludes(type, "video/quicktime") THEN ".mov"
    ELSE IF TypeIncludes(type, "video/webm") THEN ".webm"
    ELSE IF TypeIncludes(type, "video") THEN ".mp4"
    ELSE IF TypeIncludes(type, "image/jpeg") THEN ".jpg"
    ELSE IF TypeIncludes(type, "image/png") THEN ".png"
    ELSE IF TypeIncludes(type, "image/gif") THEN ".gif"
    ELSE IF TypeIncludes(type, "image/webp") THEN ".webp"
    ELSE IF TypeIncludes(type, "image") THEN ".jpg"
    ELSE ".bin"

\* mediaType of the direct path.
DirectMediaType(contentType) ==
  IF contentType # <<>> /\ TypeStartsWith(contentType, "video") THEN "video" ELSE "image"

\* mediaType of the extraction path: ext.slice(1).toLowerCase() in the video list.
LowerExt(e) == IF e = ".MKV" THEN ".mkv" ELSE e

\* A classification that compares the extension as it is written.
ExtractionMediaTypeCaseSensitive(ext) ==
  IF ext \in {".mp4", ".mov", ".webm", ".avi", ".mkv"} THEN "video" ELSE "image"

ExtractionMediaType(ext) ==
  IF LowerExt(ext) \in {".mp4", ".mov", ".webm", ".avi", ".mkv"} THEN "video" ELSE "image"

\* ---------------------------------------------------------------- responses
NoResponse ==
  [sent |-> FALSE, success |-> FALSE, status |-> 0, message |-> <<>>, filename |-> <<>>,
   mediaUrl |-> <<>>, mediaType |-> "", size |-> 0, method |-> ""]

\* errorMiddleware: the response to a thrown error.
ErrorMiddleware(err) ==
  [NoResponse EXCEPT
     !.sent = TRUE,
     !.status = IF err.isApp THEN err.statusCode ELSE 500,
     !.message = IF err.isApp THEN err.message
                 ELSE IF err.message # <<>> THEN err.message
                 ELSE <<"Internal Server Error">>]

\* A success response whose mediaUrl is built from the file path, not the filename.
SuccessResponseUrlFromPath(message, filename, mediaType, size, method) ==
  [sent |-> TRUE, success |-> TRUE, status |-> 200, message |-> message,
   filename |-> filename, mediaUrl |-> <<"/media/">> \o mediaDir \o filename,
   mediaType |-> mediaType, size |-> size, method |-> method]

\* res.json of a success: status 200.
SuccessResponse(message, filename, mediaType, size, method) ==
  [sent |-> TRUE, success |-> TRUE, status |-> 200, message |-> message,
   filename |-> filename, mediaUrl |-> <<"/media/">> \o filename,
   mediaType |-> mediaType, size |-> size, method |-> method]

\* A public name that keeps the staged file's prefix in front of the random part.
FinalFilenameKeepsPrefix(h, ext) == <<"temp_", HexString(h)>> \o (IF ext = "" THEN <<>> ELSE <<ext>>)

\* `${crypto.randomBytes(8).toString("hex")}${ext}`
FinalFilename(h, ext) == IF ext = "" THEN <<HexString(h)>> ELSE <<HexString(h), ext>>

\* -------------------------------------------------------------------- state
VARIABLES
  host,      \* the machine: is yt-dlp on the PATH, can the process write under public/,
             \* does `which` find yt-dlp, the sizes a thumbnail the tool writes can have
  dirs,      \* the directories that exist
  fs,        \* the files: path -> [size, by, via]
  params,    \* per request: url, useYtDlp, downloadImages after destructuring
  pc,        \* per request: the await it stands at
  loc,       \* per request: the local variables of fetchMedia and its callees, and
             \* rawError, the error first thrown inside downloadWithYtDlp
  execs,     \* per request: the command lines handed to exec, in order
  fetches,   \* per request: the answers to the HTTP fetches issued, in order
  stages,    \* per request: the stages entered, in order
  response,  \* per request: the response sent
  call       \* one call of a helper on its own: the function, its arguments, its result

vars == <<host, dirs, fs, params, pc, loc, execs, fetches, stages, response, call>>

\* No helper called on its own.
NoCall == [fn |-> "", arg |-> <<>>, done |-> FALSE, result |-> ""]

NoPath == Join(<<>>, <<>>)

NoInfo == [ext |-> ""]

InitLoc ==
  [ytDlpAvailable |-> FALSE, info |-> NoInfo, tempFilename |-> <<>>, hasFFmpeg |-> FALSE,
   result |-> NoPath, rawError |-> NoError, videoError |-> NoError, ytDlpError |-> NoError,
   imageTemp |-> <<>>, imageFirst |-> NoPath, imageRest |-> {}, unlinkFailed |-> {},
   primaryFailed |-> FALSE]

\* ------------------------------------------------------------- file system
Exists(p) == p \in DOMAIN fs

\* A file: its size, and (for the properties) the request and step that wrote it.
FileRecord(size, r, via) == [size |-> size, by |-> r, via |-> via]

\* writeFile, or a file the external tool leaves behind.
WriteFiles(f, new) == [p \in DOMAIN f \cup DOMAIN new |-> IF p \in DOMAIN new THEN new[p] ELSE f[p]]

\* unlink
RemoveFiles(f, gone) == [p \in DOMAIN f \ gone |-> f[p]]

\* rename: the content moves to the new path, replacing what was there.
RenameFile(f, from, to) ==
  [p \in (DOMAIN f \ {from}) \cup {to} |-> IF p = to THEN f[from] ELSE f[p]]

\* A lookup that takes every temp file of the directory, whatever its random part.
MatchingAnyTemp(dir, prefix) == {p \in DOMAIN fs : p.dir = dir /\ StartsWith(p.name, <<"temp_">>)}

\* readdir(dir) filtered by startsWith(prefix)
Matching(dir, prefix) == {p \in DOMAIN fs : p.dir = dir /\ StartsWith(p.name, prefix)}

NoFiles == [p \in {} |-> FileRecord(0, 0, "")]

\* A machine where `which` finds yt-dlp exactly when it is installed, a
\* thumbnail is never empty and the random source gives MaxHex values.
Host(ytDlp, writable) ==
  [ytDlp |-> ytDlp, writable |-> writable, which |-> ytDlp, thumbSizes |-> {1},
   hexDraws |-> 1..MaxHex]

\* The values crypto.randomBytes(8) gives on this machine.
HexDraws == host.hexDraws

Init ==
  /\ host \in {Host(ytDlp, writable) : ytDlp \in BOOLEAN, writable \in BOOLEAN}
  /\ dirs \in {{staticRoot}, {staticRoot, mediaDir}}
  /\ fs = NoFiles
  /\ \E b \in Bodies :
       params = [r \in Requests |-> Destructure(b)]
  /\ pc = [r \in Requests |-> IF r = 1 THEN "Start" ELSE "Off"]
  /\ loc = [r \in Requests |-> InitLoc]
  /\ execs = [r \in Requests |-> <<>>]
  /\ fetches = [r \in Requests |-> <<>>]
  /\ stages = [r \in Requests |-> <<>>]
  /\ response = [r \in Requests |-> NoResponse]
  /\ call = NoCall

\* ------------------------------------------------------------ small steps
Goto(r, label) == pc' = [pc EXCEPT ![r] = label]

Exec(r, cmds) == execs' = [execs EXCEPT ![r] = @ \o cmds]

Enter(r, stage) == stages' = [stages EXCEPT ![r] = Append(@, stage)]

Respond(r, resp) == response' = [response EXCEPT ![r] = resp]

\* The path every getYtDlpPath call of this request resolves to.
YtDlpPath == GetYtDlpPath(host.which)

\* ------------------------------------------------------------- fetchMedia
\* const { url, ... } = req.body; if (!url) throw new AppError("URL is required", 400)
Validate(r) ==
  /\ pc[r] = "Start"
  /\ IF ~Truthy(params[r].url)
       THEN /\ Respond(r, ErrorMiddleware(AppError(<<"URL is required">>, 400)))
            /\ Goto(r, "Done")
       ELSE /\ Goto(r, "MkMediaDir")
            /\ UNCHANGED response
  /\ UNCHANGED <<call, host, dirs, fs, params, loc, execs, fetches, stages>>

\* if (!existsSync(mediaDir)) await mkdir(mediaDir, { recursive: true })
\* then the branch on useYtDlp.
EnsureMediaDir(r) ==
  /\ pc[r] = "MkMediaDir"
  /\ IF mediaDir \notin dirs /\ ~host.writable
       THEN /\ Respond(r, ErrorMiddleware(PlainError(<<"EACCES: permission denied, mkdir">>)))
            /\ Goto(r, "Done")
            /\ UNCHANGED <<dirs, stages>>
       ELSE /\ dirs' = dirs \cup {mediaDir}
            /\ IF Truthy(params[r].useYtDlp)
                 THEN Goto(r, "CheckYtDlp") /\ UNCHANGED stages
                 ELSE Goto(r, "Direct") /\ Enter(r, "TryDirectFetch")
            /\ UNCHANGED response
  /\ UNCHANGED <<call, host, fs, params, loc, execs, fetches>>

\* How a version-check invocation ends: it exits with success (no error), it
\* exits with a non-zero status, or the shell does not find the executable.
VersionOutcomes(cmd, present) ==
  IF present
    THEN {NoError, ExecError(cmd, <<"ERROR: ", "exit status 1">>)}
    ELSE {ExecError(cmd, <<"/bin/sh: ", "command not found">>)}

\* A probe whose catch block takes the tool to be there.
ProbeCatchAssumesPresent(err) == TRUE

\* The catch block of checkYtDlpInstalled and of checkFFmpegInstalled: return false.
ProbeCatch(err) == FALSE

\* The value of a probe: true when the invocation resolved, else what catch returns.
ProbeValue(outcome) == IF outcome = NoError THEN TRUE ELSE ProbeCatch(outcome)

\* The probe's answer left unread: the extraction stage runs anyway.
AfterProbeUnread(ytDlpAvailable) == "GetMediaInfo"

\* if (!ytDlpAvailable) fall back to direct download, else the extraction stage.
AfterProbe(ytDlpAvailable) == IF ~ytDlpAvailable THEN "Direct" ELSE "GetMediaInfo"

StageOf(label) == IF label = "Direct" THEN "TryDirectFetch" ELSE "TryExtraction"

\* checkYtDlpInstalled: `which yt-dlp`, then `<path> --version`; any failure is false.
CheckYtDlpInstalled(r) ==
  /\ pc[r] = "CheckYtDlp"
  /\ \E outcome \in VersionOutcomes(VersionCommand(YtDlpPath), host.ytDlp) :
       LET ok == ProbeValue(outcome) IN
       /\ loc' = [loc EXCEPT ![r].ytDlpAvailable = ok]
       /\ Goto(r, AfterProbe(ok))
       /\ stages' = [stages EXCEPT ![r] = @ \o <<"ProbeCapabilities", StageOf(AfterProbe(ok))>>]
  /\ Exec(r, <<WhichCommand, VersionCommand(YtDlpPath)>>)
  /\ UNCHANGED <<call, host, dirs, fs, params, fetches, response>>

\* The catch (videoError) block of fetchMedia: a failed extraction goes to the
\* image fallback when the message says "only images" or images were asked for;
\* otherwise it is rethrown to the catch (ytDlpError) block, which only logs it.
OnVideoError(r, l, verr) ==
  IF WantsImages(verr, params[r].downloadImages)
    THEN /\ loc' = [loc EXCEPT ![r] = [l EXCEPT !.videoError = verr]]
         /\ Goto(r, "ImagePrimary")
         /\ Enter(r, "TryImageFallback")
    ELSE /\ loc' = [loc EXCEPT ![r] = [l EXCEPT !.videoError = verr, !.ytDlpError = verr]]
         /\ Goto(r, "Direct")
         /\ Enter(r, "TryDirectFetch")

\* An error thrown inside getMediaInfo passes its catch block, then the catch
\* block of downloadWithYtDlp, and reaches fetchMedia as videoError.
InfoThrows(r, l, raw) ==
  OnVideoError(r, [l EXCEPT !.rawError = raw], DownloadCatch(InfoCatch(raw)))

\* An error thrown in the body of downloadWithYtDlp passes its catch block.
DownloadThrows(r, l, raw) ==
  OnVideoError(r, [l EXCEPT !.rawError = raw], DownloadCatch(raw))

\* A catch (ytDlpError) block that runs the extraction once more before giving up.
OnYtDlpErrorRetryOnce(r, l, err) ==
  /\ loc' = [loc EXCEPT ![r] = [l EXCEPT !.ytDlpError = err]]
  /\ Goto(r, IF l.ytDlpError = NoError THEN "GetMediaInfo" ELSE "Direct")
  /\ Enter(r, IF l.ytDlpError = NoError THEN "TryExtraction" ELSE "TryDirectFetch")

\* The catch (ytDlpError) block of fetchMedia: log, fall through to direct download.
OnYtDlpError(r, l, err) ==
  /\ loc' = [loc EXCEPT ![r] = [l EXCEPT !.ytDlpError = err]]
  /\ Goto(r, "Direct")
  /\ Enter(r, "TryDirectFetch")

\* What `--dump-json` prints: a sequence of JSON lines, each with an ext.
InfoOutputs ==
  {<<>>} \cup {<<[ext |-> e]>> : e \in {"mp4", "jpg"}}
         \cup {<<[ext |-> e], [ext |-> "mp4"]>> : e \in {"mp4", "jpg"}}

\* The parse of getMediaInfo: an array when there are several lines.
ParseInfo(stdout) ==
  IF Len(stdout) > 1
    THEN [isArray |-> TRUE, items |-> stdout]
    ELSE [isArray |-> FALSE, items |-> <<stdout[1]>>]

\* const info = Array.isArray(mediaInfo) ? mediaInfo[0] : mediaInfo
FirstInfo(mediaInfo) == mediaInfo.items[1]

\* downloadWithYtDlp, first await: getMediaInfo(url).
GetMediaInfo(r) ==
  /\ pc[r] = "GetMediaInfo"
  /\ LET cmd == InfoCommand(YtDlpPath, params[r].url) IN
     /\ Exec(r, <<WhichCommand, cmd>>)
     /\ \/ \E stderr \in ToolStderr :
             InfoThrows(r, loc[r], ExecError(cmd, stderr))
        \/ \E stderr \in ToolWarnings, stdout \in InfoOutputs :
             IF InfoStderrError(stderr) # NoError
               THEN InfoThrows(r, loc[r], InfoStderrError(stderr))
             ELSE IF stdout = <<>>
               THEN InfoThrows(r, loc[r], PlainError(<<"Unexpected end of JSON input">>))
             ELSE /\ loc' = [loc EXCEPT ![r].info = FirstInfo(ParseInfo(stdout))]
                  /\ Goto(r, "WriteTest")
                  /\ UNCHANGED stages
  /\ UNCHANGED <<call, host, dirs, fs, params, fetches, response>>

\* path.dirname(outputPath) for the outputPath fetchMedia passes.
outputDir == Dirname(tempPath)

testFile == Join(outputDir, <<".test">>)

NoWritePermission == PlainError(<<"No write permission for output directory: ">> \o outputDir)

\* downloadWithYtDlp: the temp name, the output directory, writeFile(".test").
WriteTest(r) ==
  /\ pc[r] = "WriteTest"
  /\ \E h \in HexDraws :
       LET l == [loc[r] EXCEPT !.tempFilename = TempFilename(h)] IN
       IF host.writable
         THEN /\ dirs' = dirs \cup {outputDir}
              /\ fs' = WriteFiles(fs, [p \in {testFile} |-> FileRecord(1, r, "test")])
              /\ loc' = [loc EXCEPT ![r] = l]
              /\ Goto(r, "UnlinkTest")
              /\ UNCHANGED stages
         ELSE /\ DownloadThrows(r, l, NoWritePermission)
              /\ UNCHANGED <<dirs, fs>>
  /\ UNCHANGED <<call, host, params, execs, fetches, response>>

\* A download that goes to the format selection without asking for the merge tool.
AfterUnlinkTestNoProbe == "Download"

\* After the write check: const hasFFmpeg = await checkFFmpegInstalled().
AfterUnlinkTest == "CheckFFmpeg"

\* downloadWithYtDlp: unlink(".test"); a failure is reported as no write permission.
UnlinkTest(r) ==
  /\ pc[r] = "UnlinkTest"
  /\ IF Exists(testFile) /\ host.writable
       THEN /\ fs' = RemoveFiles(fs, {testFile})
            /\ Goto(r, AfterUnlinkTest)
            /\ UNCHANGED <<loc, stages>>
       ELSE /\ DownloadThrows(r, loc[r], NoWritePermission)
            /\ UNCHANGED fs
  /\ UNCHANGED <<call, host, dirs, params, execs, fetches, response>>

\* checkFFmpegInstalled: `ffmpeg -version`; any failure is false.
CheckFFmpegInstalled(r) ==
  /\ pc[r] = "CheckFFmpeg"
  /\ \E present \in BOOLEAN : \E outcome \in VersionOutcomes(FFmpegCommand, present) :
       loc' = [loc EXCEPT ![r].hasFFmpeg = ProbeValue(outcome)]
  /\ Exec(r, <<FFmpegCommand>>)
  /\ Goto(r, "Download")
  /\ UNCHANGED <<call, host, dirs, fs, params, fetches, stages, response>>

\* The files a download invocation that exits with success can leave.
DownloadedFiles(r, prefix) ==
  { NoFiles } \cup
  { [p \in {Join(outputDir, prefix \o e)} |-> FileRecord(n, r, "download")] :
      e \in {<<".mp4">>, <<".jpg">>, <<".MKV">>, <<>>}, n \in Sizes }

\* The files a download invocation that fails or is killed can leave.
PartialFiles(r, prefix) ==
  { NoFiles,
    [p \in {Join(outputDir, prefix \o <<".mp4", ".part">>)} |-> FileRecord(1, r, "download")] }

\* downloadWithYtDlp: format selection and the download invocation.
Download(r) ==
  /\ pc[r] = "Download"
  /\ LET cmd == DownloadCommand(YtDlpPath, loc[r].info, loc[r].hasFFmpeg, outputDir,
                                loc[r].tempFilename, params[r].url) IN
     /\ Exec(r, <<WhichCommand, cmd>>)
     /\ \/ \E new \in DownloadedFiles(r, loc[r].tempFilename) :
             /\ host.writable \/ DOMAIN new = {}
             /\ fs' = WriteFiles(fs, new)
             /\ Goto(r, "Locate")
             /\ UNCHANGED <<loc, stages>>
        \/ \E stderr \in ToolStderr, new \in PartialFiles(r, loc[r].tempFilename) :
             /\ host.writable \/ DOMAIN new = {}
             /\ fs' = WriteFiles(fs, new)
             /\ DownloadThrows(r, loc[r], ExecError(cmd, stderr))
  /\ UNCHANGED <<call, host, dirs, params, fetches, response>>

ArtifactNotFound == PlainError(<<"Downloaded file not found in output directory">>)

EmptyArtifact == PlainError(<<"Downloaded file is empty (0 bytes)">>)

\* A stage without the empty-file test.
IsEmptyFileNever(size) == FALSE

\* if (fileStats.size === 0)
IsEmptyFile(size) == size = 0

\* downloadWithYtDlp: readdir, find by prefix, stat, the empty-file test.
Locate(r) ==
  /\ pc[r] = "Locate"
  /\ LET found == Matching(outputDir, loc[r].tempFilename) IN
     IF found = {}
       THEN DownloadThrows(r, loc[r], ArtifactNotFound)
       ELSE \E downloadedPath \in found :
              IF IsEmptyFile(fs[downloadedPath].size)
                THEN DownloadThrows(r, loc[r], EmptyArtifact)
                ELSE /\ loc' = [loc EXCEPT ![r].result = downloadedPath]
                     /\ Goto(r, "Promote")
                     /\ UNCHANGED stages
  /\ UNCHANGED <<call, host, dirs, fs, params, execs, fetches, response>>

\* fetchMedia after downloadWithYtDlp returned: final name, rename, stat, res.json.
Promote(r) ==
  /\ pc[r] = "Promote"
  /\ \E h \in HexDraws :
       LET ext == Extname(loc[r].result.name)
           filename == FinalFilename(h, ext)
           filePath == Join(mediaDir, filename)
       IN
       IF Exists(loc[r].result) /\ host.writable
         THEN /\ fs' = RenameFile(fs, loc[r].result, filePath)
              /\ Respond(r, SuccessResponse(<<"Media downloaded successfully">>, filename,
                              ExtractionMediaType(ext),
                              RenameFile(fs, loc[r].result, filePath)[filePath].size, "yt-dlp"))
              /\ Goto(r, "Done")
              /\ UNCHANGED <<loc, stages>>
         ELSE /\ OnYtDlpError(r, loc[r], PlainError(<<"ENOENT: no such file or directory, rename">>))
              /\ UNCHANGED <<fs, response>>
  /\ UNCHANGED <<call, host, dirs, params, execs, fetches>>

\* The files an image invocation can leave: up to MaxImages numbered thumbnails.
ImageFiles(r, prefix) ==
  { [p \in {Join(mediaDir, prefix \o <<"_", ToString(i), ".jpg">>) : i \in 1..k}
       |-> FileRecord(n, r, "image")] : k \in 0..MaxImages, n \in host.thumbSizes }

\* An image stage that runs the alternate invocation whatever the primary one did.
AfterPrimaryAlwaysAlt(ok) == "ImageAlt"

\* try { primary } catch { alternate }: the alternate invocation runs when the
\* primary one rejected; otherwise the files are collected.
AfterPrimary(ok) == IF ok THEN "ImageCollect" ELSE "ImageAlt"

\* downloadImagesFromPost: the temp name and the primary invocation.
ImagePrimary(r) ==
  /\ pc[r] = "ImagePrimary"
  /\ \E h \in HexDraws, ok \in BOOLEAN : \E new \in ImageFiles(r, TempFilename(h)) :
       /\ host.writable \/ DOMAIN new = {}
       /\ loc' = [loc EXCEPT ![r].imageTemp = TempFilename(h), ![r].primaryFailed = ~ok]
       /\ Exec(r, <<WhichCommand, ImageCommand(YtDlpPath, mediaDir, TempFilename(h), params[r].url)>>)
       /\ fs' = WriteFiles(fs, new)
       /\ Goto(r, AfterPrimary(ok))
  /\ UNCHANGED <<call, host, dirs, params, fetches, stages, response>>

\* downloadImagesFromPost: the alternate invocation, after the primary one failed.
ImageAlt(r) ==
  /\ pc[r] = "ImageAlt"
  /\ LET cmd == AltImageCommand(YtDlpPath, mediaDir, loc[r].imageTemp, params[r].url) IN
     /\ Exec(r, <<cmd>>)
     /\ \E new \in ImageFiles(r, loc[r].imageTemp) :
          /\ host.writable \/ DOMAIN new = {}
          /\ fs' = WriteFiles(fs, new)
          /\ \/ /\ Goto(r, "ImageCollect")
                /\ UNCHANGED <<loc, stages>>
             \/ \E stderr \in {<<>>, <<"ERROR: Unsupported URL">>} :
                  OnYtDlpError(r, loc[r], ImagesCatch(ExecError(cmd, stderr)))
  /\ UNCHANGED <<call, host, dirs, params, fetches, response>>

\* downloadImagesFromPost: readdir, filter by prefix; fetchMedia takes filePaths[0].
ImageCollect(r) ==
  /\ pc[r] = "ImageCollect"
  /\ LET downloadedFiles == Matching(mediaDir, loc[r].imageTemp) IN
     IF downloadedFiles = {}
       THEN OnYtDlpError(r, loc[r], ImagesCatch(PlainError(<<"No images found in post">>)))
       ELSE \E firstImage \in downloadedFiles :
              /\ loc' = [loc EXCEPT ![r].imageFirst = firstImage,
                                    ![r].imageRest = downloadedFiles \ {firstImage}]
              /\ Goto(r, "ImagePromote")
              /\ UNCHANGED stages
  /\ UNCHANGED <<call, host, dirs, fs, params, execs, fetches, response>>

\* A clean-up loop that unlinks nothing.
UnlinkRestSkipped(f, rest, failed) == f

\* for (i = 1; ...) await unlink(imagePath).catch(() => {}): every other image
\* is unlinked; an unlink that fails leaves its file and is ignored.
UnlinkRest(f, rest, failed) == RemoveFiles(f, (rest \ failed) \cap DOMAIN f)

\* fetchMedia, image branch: final name, rename, unlink the other images
\* (failures swallowed), stat, res.json.
ImagePromote(r) ==
  /\ pc[r] = "ImagePromote"
  /\ \E h \in HexDraws, failed \in SUBSET loc[r].imageRest :
       LET ext == Extname(loc[r].imageFirst.name)
           filename == FinalFilename(h, ext)
           filePath == Join(mediaDir, filename)
           renamed == RenameFile(fs, loc[r].imageFirst, filePath)
           cleaned == UnlinkRest(renamed, loc[r].imageRest, failed)
       IN
       IF Exists(loc[r].imageFirst) /\ host.writable
         THEN /\ fs' = cleaned
              /\ loc' = [loc EXCEPT ![r].unlinkFailed = failed]
              /\ Respond(r, SuccessResponse(<<"Image downloaded successfully">>, filename,
                              "image", cleaned[filePath].size, "yt-dlp-image"))
              /\ Goto(r, "Done")
              /\ UNCHANGED stages
         ELSE /\ OnYtDlpError(r, loc[r], PlainError(<<"ENOENT: no such file or directory, rename">>))
              /\ UNCHANGED <<fs, response>>
  /\ UNCHANGED <<call, host, dirs, params, execs, fetches>>

\* The statuses the remote host answers with (res.ok is 200..299).
HttpStatuses == {"200 OK", "206 Partial Content", "403 Forbidden", "404 Not Found"}

ResOk(status) == status \in {"200 OK", "206 Partial Content"}

\* What fetch met: a network failure, or a status with a body of n bytes.
NetworkFailure == [status |-> "none", contentType |-> <<>>, n |-> 0]

Answer(status, contentType, n) == [status |-> status, contentType |-> contentType, n |-> n]

\* directDownload on a network failure: fetch rejects.
FetchFailed == [err |-> PlainError(<<"fetch failed">>), buffer |-> 0, contentType |-> <<>>]

\* directDownload without the res.ok test: every answer's body is returned.
DirectResultNoOkTest(answer) ==
  [err |-> NoError, buffer |-> answer.n, contentType |-> answer.contentType]

\* directDownload on an answer of the remote host: the res.ok test, then the body.
DirectResult(answer) ==
  IF ~ResOk(answer.status)
    THEN [err |-> AppError(<<"Failed to download: ", answer.status>>, 502), buffer |-> 0,
          contentType |-> <<>>]
    ELSE [err |-> NoError, buffer |-> answer.n, contentType |-> answer.contentType]

\* The direct branch without the test for an empty body.
DirectFinishNoEmptyTest(r, got, h) ==
  LET ext == getExtensionFromContentType(got.contentType)
      filename == FinalFilename(h, ext)
      filePath == Join(mediaDir, filename)
  IN
  IF got.err # NoError
    THEN /\ Respond(r, ErrorMiddleware(FinalCatch(got.err)))
         /\ UNCHANGED fs
  ELSE IF host.writable /\ mediaDir \in dirs
    THEN /\ fs' = WriteFiles(fs, [p \in {filePath} |-> FileRecord(got.buffer, r, "direct")])
         /\ Respond(r, SuccessResponse(<<"Media downloaded successfully">>, filename,
                         DirectMediaType(got.contentType), got.buffer, "direct"))
    ELSE /\ Respond(r, ErrorMiddleware(FinalCatch(
                         PlainError(<<"EACCES: permission denied, open">>))))
         /\ UNCHANGED fs

\* fetchMedia, direct branch, after directDownload: the empty test, the
\* extension, writeFile, res.json; every failure ends in the final catch.
DirectFinish(r, got, h) ==
  LET ext == getExtensionFromContentType(got.contentType)
      filename == FinalFilename(h, ext)
      filePath == Join(mediaDir, filename)
  IN
  IF got.err # NoError
    THEN /\ Respond(r, ErrorMiddleware(FinalCatch(got.err)))
         /\ UNCHANGED fs
  ELSE IF got.buffer = 0
    THEN /\ Respond(r, ErrorMiddleware(FinalCatch(AppError(<<"Downloaded file is empty">>, 502))))
         /\ UNCHANGED fs
  ELSE IF host.writable /\ mediaDir \in dirs
    THEN /\ fs' = WriteFiles(fs, [p \in {filePath} |-> FileRecord(got.buffer, r, "direct")])
         /\ Respond(r, SuccessResponse(<<"Media downloaded successfully">>, filename,
                         DirectMediaType(got.contentType), got.buffer, "direct"))
    ELSE /\ Respond(r, ErrorMiddleware(FinalCatch(
                         PlainError(<<"EACCES: permission denied, open">>))))
         /\ UNCHANGED fs

\* The content types the remote host answers with: absent, a video, an image,
\* a value in upper case.
AnswerTypes == {<<>>, <<"video/mp4">>, <<"image/png">>, <<"VIDEO/MP4">>}

\* The answers the remote host can give.
Answers ==
  {NetworkFailure}
    \cup {Answer("200 OK", <<>>, 0)}
    \cup {Answer(status, <<"text/html", "; charset=utf-8">>, 1) : status \in HttpStatuses \ {"200 OK"}}
    \cup {Answer("200 OK", contentType, n) : contentType \in AnswerTypes, n \in Sizes \ {0}}

\* The direct download of fetchMedia.
DirectDownload(r) ==
  /\ pc[r] = "Direct"
  /\ \E answer \in Answers :
       /\ fetches' = [fetches EXCEPT ![r] = Append(@, answer)]
       /\ IF answer = NetworkFailure
            THEN DirectFinish(r, FetchFailed, 1)
            ELSE \E h \in (IF ResOk(answer.status) /\ answer.n > 0 THEN HexDraws ELSE {1}) :
                   DirectFinish(r, DirectResult(answer), h)
  /\ Goto(r, "Done")
  /\ UNCHANGED <<call, host, dirs, params, loc, execs, stages>>

Next ==
  \E r \in Requests :
    \/ Validate(r)
    \/ EnsureMediaDir(r)
    \/ CheckYtDlpInstalled(r)
    \/ GetMediaInfo(r)
    \/ WriteTest(r)
    \/ UnlinkTest(r)
    \/ CheckFFmpegInstalled(r)
    \/ Download(r)
    \/ Locate(r)
    \/ Promote(r)
    \/ ImagePrimary(r)
    \/ ImageAlt(r)
    \/ ImageCollect(r)
    \/ ImagePromote(r)
    \/ DirectDownload(r)

Spec == Init /\ [][Next]_vars

\* ------------------------------------------------------ a harsher environment
\* yt-dlp is installed and the directory is writable, but `which` may be missing
\* (the lookup fails and the bare name is used), a thumbnail may be empty, and
\* an external call made without a timeout may never come back.
EnvInit ==
  /\ host \in {[Host(TRUE, TRUE) EXCEPT !.which = w, !.thumbSizes = {0, 1}] : w \in BOOLEAN}
  /\ dirs = {staticRoot, mediaDir}
  /\ fs = NoFiles
  /\ params = [r \in Requests |-> Destructure([url |-> "https://x.example/post/1",
                                                useYtDlp |-> "undefined",
                                                downloadImages |-> "undefined"])]
  /\ pc = [r \in Requests |-> IF r = 1 THEN "Start" ELSE "Off"]
  /\ loc = [r \in Requests |-> InitLoc]
  /\ execs = [r \in Requests |-> <<>>]
  /\ fetches = [r \in Requests |-> <<>>]
  /\ stages = [r \in Requests |-> <<>>]
  /\ response = [r \in Requests |-> NoResponse]
  /\ call = NoCall

\* The awaits on a call made without a timeout: the version checks and the
\* `which` lookups (exec without the timeout option), and fetch.
UntimedAwaits == {"CheckYtDlp", "GetMediaInfo", "CheckFFmpeg", "Download", "ImagePrimary", "Direct"}

\* The call awaited never settles: the request stays where it is for ever.
Stall(r) ==
  /\ pc[r] \in UntimedAwaits
  /\ Goto(r, "Stalled")
  /\ UNCHANGED <<call, host, dirs, fs, params, loc, execs, fetches, stages, response>>

EnvNext == Next \/ \E r \in Requests : Stall(r)

\* A request whose awaited call has settled is resumed.
EnvSpec == EnvInit /\ [][EnvNext]_vars /\ WF_vars(EnvNext)

\* ------------------------------------------------------- two requests at once
\* Two requests for the same URL are in flight on a machine with yt-dlp and a
\* writable directory; their steps interleave at every await. The random source
\* has a value for each of the two stage runs of each request.
ConcInit ==
  /\ host = [Host(TRUE, TRUE) EXCEPT !.hexDraws = 1..(2 * Cardinality(Requests))]
  /\ dirs = {staticRoot, mediaDir}
  /\ fs = NoFiles
  /\ params = [r \in Requests |-> Destructure([url |-> "https://x.example/post/1",
                                                useYtDlp |-> "undefined",
                                                downloadImages |-> "undefined"])]
  /\ pc = [r \in Requests |-> "Start"]
  /\ loc = [r \in Requests |-> InitLoc]
  /\ execs = [r \in Requests |-> <<>>]
  /\ fetches = [r \in Requests |-> <<>>]
  /\ stages = [r \in Requests |-> <<>>]
  /\ response = [r \in Requests |-> NoResponse]
  /\ call = NoCall

\* The temp prefixes drawn so far, one per stage run.
StageRuns == Requests \X {"tempFilename", "imageTemp"}

PrefixOf(run) == IF run[2] = "tempFilename" THEN loc[run[1]].tempFilename ELSE loc[run[1]].imageTemp

\* crypto.randomBytes(8) never gave two stage runs the same prefix.
DistinctPrefixes ==
  \A s, t \in StageRuns : (s # t /\ PrefixOf(s) # <<>>) => PrefixOf(s) # PrefixOf(t)

\* The tools and the remote host of this machine: the metadata probe answers
\* with one mp4 descriptor, ffmpeg is installed, a download leaves one mp4 of
\* one byte or fails for a post without video, an image invocation fails for an
\* unsupported URL, every unlink of a leftover image works, and the remote host
\* of the direct fetch is down.
ProbeAnswered(r) == loc[r].rawError = NoError /\ loc[r].info.ext = "mp4"

DownloadEnded(r) ==
  /\ loc[r].rawError = NoError \/ Includes(loc[r].rawError.stderr, "No video could be found")
  /\ \A p \in DOMAIN fs : fs[p].via = "download" => (fs[p].size = 1 /\ Extname(p.name) = ".mp4")

ImagesEnded(r) ==
  /\ loc[r].ytDlpError = NoError \/ Includes(loc[r].ytDlpError.message, "ERROR: Unsupported URL")
  /\ loc[r].unlinkFailed = {}

HostDown(r) == Last(fetches[r]) = NetworkFailure

ConcNext ==
  \E r \in Requests :
    \/ Validate(r)
    \/ EnsureMediaDir(r)
    \/ CheckYtDlpInstalled(r)
    \/ GetMediaInfo(r) /\ ProbeAnswered(r)'
    \/ WriteTest(r) /\ DistinctPrefixes'
    \/ UnlinkTest(r)
    \/ CheckFFmpegInstalled(r) /\ loc'[r].hasFFmpeg
    \/ Download(r) /\ DownloadEnded(r)'
    \/ Locate(r)
    \/ Promote(r)
    \/ ImagePrimary(r) /\ DistinctPrefixes'
    \/ ImageAlt(r) /\ ImagesEnded(r)'
    \/ ImageCollect(r)
    \/ ImagePromote(r) /\ ImagesEnded(r)'
    \/ DirectDownload(r) /\ HostDown(r)'

ConcSpec == ConcInit /\ [][ConcNext]_vars

\* ------------------------------------------------- helpers called on their own
\* No request runs; one helper is applied to one argument.
IdleRequests ==
  /\ host = Host(FALSE, FALSE)
  /\ dirs = {staticRoot}
  /\ fs = NoFiles
  /\ params = [r \in Requests |-> Destructure([url |-> NoUrl, useYtDlp |-> "undefined",
                                                 downloadImages |-> "undefined"])]
  /\ pc = [r \in Requests |-> "Off"]
  /\ loc = [r \in Requests |-> InitLoc]
  /\ execs = [r \in Requests |-> <<>>]
  /\ fetches = [r \in Requests |-> <<>>]
  /\ stages = [r \in Requests |-> <<>>]
  /\ response = [r \in Requests |-> NoResponse]

\* The argument is a content-type header; nothing is called yet.
ExtensionInit ==
  /\ IdleRequests
  /\ \E contentType \in HeaderValues :
       call = [NoCall EXCEPT !.fn = "getExtensionFromContentType", !.arg = contentType]

\* getExtensionFromContentType(contentType)
CallGetExtension ==
  /\ call.fn = "getExtensionFromContentType" /\ ~call.done
  /\ call' = [call EXCEPT !.done = TRUE, !.result = getExtensionFromContentType(call.arg)]
  /\ UNCHANGED <<host, dirs, fs, params, pc, loc, execs, fetches, stages, response>>

\* The ext field of the descriptor getMediaInfo returns ("" when there is none).
InfoExts == {"", "jpg", "png", "webp", "jpeg", "JPG", "gif", "mp4", "webm", "m4a"}

\* The arguments are the descriptor and the answer of the merge-tool probe.
FormatInit ==
  /\ IdleRequests
  /\ \E ext \in InfoExts, hasFFmpeg \in BOOLEAN :
       call = [NoCall EXCEPT !.fn = "downloadWithYtDlp",
                             !.arg = [info |-> [ext |-> ext], hasFFmpeg |-> hasFFmpeg]]

\* downloadWithYtDlp from the format selection to the command line it builds.
CallDownloadCommand ==
  /\ call.fn = "downloadWithYtDlp" /\ ~call.done
  /\ \E h \in HexDraws :
       call' = [call EXCEPT !.done = TRUE,
                            !.result = DownloadCommand("yt-dlp", call.arg.info, call.arg.hasFFmpeg,
                                                       outputDir, TempFilename(h),
                                                       "https://x.example/post/1")]
  /\ UNCHANGED <<host, dirs, fs, params, pc, loc, execs, fetches, stages, response>>

\* The errors express can hand to errorMiddleware: an AppError with one of the
\* statuses the controller uses, or another Error (one thrown by fs or fetch, one
\* of express.json() that carries a statusCode of its own); the message may be
\* the empty string.
ErrorMessages == {<<>>, <<"URL is required">>, <<"fetch failed">>}

ThrownErrors ==
  {AppError(message, statusCode) : message \in ErrorMessages, statusCode \in {400, 429, 502}}
    \cup {PlainError(message) : message \in ErrorMessages}
    \cup {[PlainError(message) EXCEPT !.statusCode = 400] : message \in ErrorMessages}

\* The argument is the error; nothing is called yet.
ErrorInit ==
  /\ IdleRequests
  /\ \E err \in ThrownErrors :
       call = [NoCall EXCEPT !.fn = "errorMiddleware", !.arg = err]

\* errorMiddleware(err, req, res, next)
CallErrorMiddleware ==
  /\ call.fn = "errorMiddleware" /\ ~call.done
  /\ call' = [call EXCEPT !.done = TRUE, !.result = ErrorMiddleware(call.arg)]
  /\ UNCHANGED <<host, dirs, fs, params, pc, loc, execs, fetches, stages, response>>

HelperInit == ExtensionInit \/ FormatInit \/ ErrorInit

HelperNext == CallGetExtension \/ CallDownloadCommand \/ CallErrorMiddleware

HelperSpec == HelperInit /\ [][HelperNext]_vars

\* ============================================================== properties
Sent(r) == response[r].sent

UrlMissingOrEmpty(r) == params[r].url \in {NoUrl, ""}

Succeeded(r) == response[r].sent /\ response[r].success

Failed(r) == response[r].sent /\ ~response[r].success

IsTemp(name) == StartsWith(name, <<"temp_">>)

\* The files request r caused to exist, by the step that wrote them.
FilesBy(r, via) == {p \in DOMAIN fs : fs[p].by = r /\ fs[p].via = via}

\* The staged files of request r: what its tool invocations wrote under a temp name.
StagedBy(r) == {p \in DOMAIN fs : fs[p].by = r /\ IsTemp(p.name)}

\* The final artifacts of request r: its files in the media directory under a public name.
FinalBy(r) == {p \in DOMAIN fs : fs[p].by = r /\ p.dir = mediaDir /\ ~IsTemp(p.name)
                                  /\ fs[p].via # "test"}

Position(seq, x) == IF Includes(seq, x) THEN CHOOSE i \in 1..Len(seq) : seq[i] = x ELSE 0

ImageCommandsRun(r) ==
  {i \in 1..Len(execs[r]) : Includes(execs[r][i], "--write-thumbnail")}

ExtractionCommandsRun(r) ==
  {i \in 1..Len(execs[r]) : Includes(execs[r][i], "--dump-json") \/ Includes(execs[r][i], "--format")}

\* C1: a request whose url is missing or empty is answered with status 400 and
\* nothing else happens: no subprocess, no fetch, no stage, no file, no directory.
C1_InvalidUrlRejectedFirst ==
  /\ [](\A r \in Requests :
          UrlMissingOrEmpty(r) =>
            /\ pc[r] \in {"Off", "Start", "Done"}
            /\ execs[r] = <<>> /\ fetches[r] = <<>> /\ stages[r] = <<>>
            /\ {p \in DOMAIN fs : fs[p].by = r} = {}
            /\ (pc[r] = "Done" => Failed(r) /\ response[r].status = 400))
  /\ [][\A r \in Requests :
          (UrlMissingOrEmpty(r) /\ pc[r] # pc'[r]) => (dirs' = dirs /\ fs' = fs)]_vars

C1_Witness ==
  \E r \in Requests : UrlMissingOrEmpty(r) /\ Failed(r) /\ response[r].status = 400

\* C2: with useYtDlp false, or the yt-dlp probe answering absent, the request never
\* enters the extraction or the image stage and runs none of their commands; the
\* stage after the probe is the direct fetch.
C2_SkipsToDirectFetch ==
  \A r \in Requests :
    /\ (params[r].useYtDlp = "false" /\ stages[r] # <<>>) =>
         /\ stages[r] = <<"TryDirectFetch">>
         /\ execs[r] = <<>>
    /\ (Includes(stages[r], "ProbeCapabilities") /\ ~loc[r].ytDlpAvailable) =>
         /\ stages[r] = <<"ProbeCapabilities", "TryDirectFetch">>
         /\ ExtractionCommandsRun(r) = {} /\ ImageCommandsRun(r) = {}
         /\ pc[r] \in {"Direct", "Done"}

C2_Witness ==
  \E r \in Requests :
    /\ Includes(stages[r], "ProbeCapabilities") /\ ~loc[r].ytDlpAvailable
    /\ fetches[r] # <<>>

\* The extraction tool said that the post has no video.
NoVideoInPost(r) == Includes(loc[r].rawError.message, "No video could be found")

ExtractionFailed(r) == loc[r].videoError # NoError

\* C3: when the extraction stage failed with "no video in the post" (from the
\* metadata probe or from the download), or failed for any cause with
\* downloadImages set, the image extractor is invoked before any direct fetch, and
\* the direct fetch is reached only after the image fallback failed.
C3_ImageFallbackBeforeDirect ==
  \A r \in Requests :
    (ExtractionFailed(r) /\ (NoVideoInPost(r) \/ params[r].downloadImages = "true")) =>
      /\ Includes(stages[r], "TryImageFallback")
      /\ pc[r] # "ImagePrimary" => ImageCommandsRun(r) # {}
      /\ Includes(stages[r], "TryDirectFetch") =>
           /\ Position(stages[r], "TryImageFallback") < Position(stages[r], "TryDirectFetch")
           /\ ImageCommandsRun(r) # {}
           /\ loc[r].ytDlpError # NoError /\ loc[r].ytDlpError # loc[r].videoError
           /\ ~(Succeeded(r) /\ response[r].method = "yt-dlp-image")

C3_Witness ==
  \E r \in Requests :
    /\ ExtractionFailed(r) /\ NoVideoInPost(r) /\ params[r].downloadImages = "false"
    /\ fetches[r] # <<>>

\* C4: at a success response the request has exactly one final artifact in the
\* public directory and none of the files it staged under a temp name is left.
C4_OneArtifactNoLeftovers ==
  \A r \in Requests :
    Succeeded(r) => (Cardinality(FinalBy(r)) = 1 /\ StagedBy(r) = {})

\* C5: no staged file (a file under a temp name) lies in the public media
\* directory or anywhere under the directory served as static content.
C5_StagedFilesOutsidePublic ==
  \A p \in DOMAIN fs :
    IsTemp(p.name) => (p.dir # mediaDir /\ ~StartsWith(p.dir, staticRoot))

\* C6: a failure of the direct-fetch stage ends the request: one fetch, no stage
\* after it, a failure response with status 502; on a non-2xx answer the stage
\* writes no file.
C6_DirectFailureIsTerminal ==
  \A r \in Requests :
    fetches[r] # <<>> =>
      /\ Len(fetches[r]) = 1 /\ pc[r] = "Done" /\ Sent(r)
      /\ Last(stages[r]) = "TryDirectFetch"
      /\ Failed(r) => (response[r].status = 502 /\ FilesBy(r, "direct") = {})
      /\ ~ResOk(fetches[r][1].status) => (Failed(r) /\ response[r].status = 502)

C6_Witness ==
  \E r \in Requests :
    fetches[r] # <<>> /\ fetches[r][1].status = "404 Not Found" /\ Failed(r)

\* C7: when the file the extraction tool downloaded has zero bytes, the request
\* ends in a failure with status 502 and the zero-byte temp file is gone.
C7_EmptyArtifactFailsAndIsRemoved ==
  \A r \in Requests :
    (pc[r] = "Done" /\ loc[r].rawError = EmptyArtifact) =>
      /\ Failed(r) /\ response[r].status = 502
      /\ {p \in StagedBy(r) : fs[p].size = 0} = {}

\* C8: a direct fetch that succeeds with an empty body ends the request with
\* status 502 and the empty-file message; nothing is written, nothing runs after.
C8_EmptyBodyIsTerminal ==
  \A r \in Requests :
    (fetches[r] # <<>> /\ ResOk(fetches[r][1].status) /\ fetches[r][1].n = 0) =>
      /\ Failed(r) /\ response[r].status = 502
      /\ Includes(response[r].message, "Downloaded file is empty")
      /\ FilesBy(r, "direct") = {}
      /\ pc[r] = "Done" /\ Len(fetches[r]) = 1 /\ Last(stages[r]) = "TryDirectFetch"

C8_Witness ==
  \E r \in Requests :
    fetches[r] # <<>> /\ fetches[r][1].status = "200 OK" /\ fetches[r][1].n = 0 /\ Sent(r)

\* The status the error classification of a failed request carries: 400 for a
\* validation error, 429 when the extraction tool reported rate limiting, 400 for
\* the other extraction-semantic errors, 500 for an unclassified error, 502 for
\* a download or fetch failure.
ClassifiedStatus(r) ==
  IF UrlMissingOrEmpty(r) THEN 400
  ELSE IF loc[r].videoError.statusCode = 429 THEN 429
  ELSE IF loc[r].videoError.statusCode = 400 THEN 400
  ELSE IF fetches[r] = <<>> THEN 500
  ELSE 502

\* C9: every failure response carries the status of its error classification.
C9_FailureStatusIsClassification ==
  \A r \in Requests : Failed(r) => response[r].status = ClassifiedStatus(r)

\* C10: the method of a success response names the stage that produced the
\* artifact, the image fallback reports mediaType image, and mediaUrl is
\* "/media/" followed by the filename.
C10_MethodNamesStage ==
  \A r \in Requests :
    Succeeded(r) =>
      /\ response[r].method \in {"yt-dlp", "yt-dlp-image", "direct"}
      /\ response[r].mediaUrl = <<"/media/">> \o response[r].filename
      /\ Join(mediaDir, response[r].filename) \in DOMAIN fs
      /\ response[r].method = "yt-dlp" <=>
           (Last(stages[r]) = "TryExtraction" /\ ~ExtractionFailed(r))
      /\ response[r].method = "yt-dlp-image" <=>
           (Last(stages[r]) = "TryImageFallback" /\ ExtractionFailed(r))
      /\ response[r].method = "yt-dlp-image" => response[r].mediaType = "image"
      /\ response[r].method = "direct" <=>
           (Last(stages[r]) = "TryDirectFetch" /\ FilesBy(r, "direct") # {})
      /\ response[r].method = "direct" =>
           fs[Join(mediaDir, response[r].filename)].via = "direct"
      /\ response[r].method = "yt-dlp" =>
           fs[Join(mediaDir, response[r].filename)].via = "download"

C10_Witness ==
  \E r \in Requests : Succeeded(r) /\ response[r].method = "yt-dlp-image"

\* The media type of a header value: its first part, in lower case ("" when absent).
MediaTypeOf(contentType) == IF contentType = <<>> THEN "" ELSE LowerToken(contentType[1])

\* The documented table of extensions, by media type.
DocumentedExtension(type) ==
  CASE type = "video/mp4" -> ".mp4"
    [] type = "video/quicktime" -> ".mov"
    [] type = "video/webm" -> ".webm"
    [] type \in {"video/x-matroska"} -> ".mp4"
    [] type = "image/jpeg" -> ".jpg"
    [] type = "image/png" -> ".png"
    [] type = "image/gif" -> ".gif"
    [] type = "image/webp" -> ".webp"
    [] type \in {"image/svg+xml"} -> ".jpg"
    [] OTHER -> ".bin"

\* C11: getExtensionFromContentType returns, for every content type, the extension
\* the documented table gives for its media type, and .bin for every type outside
\* video/* and image/* and for an absent header.
C11_ExtensionIsDocumented ==
  (call.fn = "getExtensionFromContentType" /\ call.done) =>
    call.result = DocumentedExtension(MediaTypeOf(call.arg))

\* The place of a stage in the documented order.
StageRank(stage) ==
  CASE stage = "ProbeCapabilities" -> 1
    [] stage = "TryExtraction" -> 2
    [] stage = "TryImageFallback" -> 3
    [] stage = "TryDirectFetch" -> 4

\* The stage a request is in, by the await it stands at.
StageAt(label) ==
  CASE label \in {"GetMediaInfo", "WriteTest", "UnlinkTest", "CheckFFmpeg", "Download", "Locate",
                  "Promote"} -> "TryExtraction"
    [] label \in {"ImagePrimary", "ImageAlt", "ImageCollect", "ImagePromote"} -> "TryImageFallback"
    [] label = "Direct" -> "TryDirectFetch"
    [] OTHER -> ""

\* C12: the stages a request enters are in the order ProbeCapabilities,
\* TryExtraction, TryImageFallback, TryDirectFetch, each at most once (stages may be
\* skipped); the request stands in the stage it entered last; it keeps running until
\* it answers, it answers once, and the answer is a success or a failure.
C12_StagesInOrderOneOutcome ==
  \A r \in Requests :
    /\ \A i, j \in 1..Len(stages[r]) :
         i < j => StageRank(stages[r][i]) < StageRank(stages[r][j])
    /\ StageAt(pc[r]) # "" => (stages[r] # <<>> /\ Last(stages[r]) = StageAt(pc[r]))
    /\ Sent(r) <=> pc[r] = "Done"
    /\ Sent(r) => (response[r].success <=> response[r].status = 200)
    /\ pc[r] \notin {"Off", "Done"} => ENABLED Next
    /\ pc[r] = "Done" => ~ENABLED (Next /\ (response'[r] # response[r] \/ pc'[r] # pc[r]))

C12_Witness ==
  \E r \in Requests :
    /\ stages[r] = <<"ProbeCapabilities", "TryExtraction", "TryImageFallback", "TryDirectFetch">>
    /\ Sent(r)

\* The extraction tool's diagnostic stream said that the post has no video.
ToolSaidNoVideo(r) == Includes(loc[r].rawError.stderr, "No video could be found")

\* C13: the image extractor is invoked only after the extraction stage of the
\* request failed, and only when the tool reported no video in the post or the
\* request set downloadImages; otherwise a failed extraction goes to the direct
\* fetch, and a request whose extraction succeeded runs no image command.
C13_ImageExtractorOnlyOnMatchingCause ==
  \A r \in Requests :
    /\ (Includes(stages[r], "TryImageFallback") \/ ImageCommandsRun(r) # {}) =>
         /\ ExtractionFailed(r)
         /\ ToolSaidNoVideo(r) \/ params[r].downloadImages = "true"
    /\ (ExtractionFailed(r) /\ ~ToolSaidNoVideo(r) /\ params[r].downloadImages = "false") =>
         /\ ImageCommandsRun(r) = {}
         /\ Includes(stages[r], "TryDirectFetch")

\* sub occurs in s as a run of consecutive tokens.
Contains(s, sub) ==
  \E i \in 1..(Len(s) - Len(sub) + 1) : SubSeq(s, i, i + Len(sub) - 1) = sub

\* C14: a failure response is sent only when no later strategy remains (the
\* direct fetch failed, or the request failed before any stage), and when the
\* extraction stage had failed its message holds the message of the error first
\* raised in the extraction stage.
C14_FinalFailureCarriesToolMessage ==
  \A r \in Requests :
    Failed(r) =>
      /\ stages[r] = <<>> \/ Last(stages[r]) = "TryDirectFetch"
      /\ ExtractionFailed(r) => Contains(response[r].message, loc[r].rawError.message)

\* The errors a request holds: the locals of its catch blocks and its response.
MessagesOf(r) ==
  {loc[r].rawError.message, loc[r].videoError.message, loc[r].ytDlpError.message,
   response[r].message}

ProbeCommands == {VersionCommand(YtDlpPath), FFmpegCommand}

Probed(r, cmd) == \E i \in 1..Len(execs[r]) : execs[r][i] = cmd

\* C15: a failed version check is never raised: no error the request holds is the
\* error of a probe command; a missing yt-dlp gives the value false and the request
\* goes on to the direct fetch; after the merge-tool probe the request goes on to
\* the download whatever the probe answered; a request fails only before the
\* probes or in the direct fetch.
C15_ProbesNeverRaise ==
  \A r \in Requests :
    /\ \A m \in MessagesOf(r), cmd \in ProbeCommands : ~Contains(m, cmd)
    /\ (Probed(r, VersionCommand(YtDlpPath)) /\ ~host.ytDlp) => ~loc[r].ytDlpAvailable
    /\ (Probed(r, VersionCommand(YtDlpPath)) /\ ~loc[r].ytDlpAvailable) =>
         (pc[r] \in {"Direct", "Done"} /\ (Failed(r) => fetches[r] # <<>>))
    /\ (Probed(r, FFmpegCommand) /\ pc[r] # "Download") =>
         \E i \in 1..Len(execs[r]) : Includes(execs[r][i], "--format")
    /\ (Probed(r, VersionCommand(YtDlpPath)) /\ Failed(r)) =>
         (fetches[r] # <<>> /\ Last(stages[r]) = "TryDirectFetch")

C15_Witness ==
  \E r \in Requests :
    /\ Probed(r, VersionCommand(YtDlpPath)) /\ ~host.ytDlp
    /\ Succeeded(r) /\ response[r].method = "direct"

\* The extension detected for the artifact of a successful request: of the staged
\* file on the tool paths, of the content type on the direct path.
DetectedExt(r) ==
  CASE response[r].method = "yt-dlp" -> Extname(loc[r].result.name)
    [] response[r].method = "yt-dlp-image" -> Extname(loc[r].imageFirst.name)
    [] response[r].method = "direct" -> getExtensionFromContentType(fetches[r][1].contentType)

\* The names a random draw and an extension give: the draw's hex text, then the extension.
FreshNames(ext) ==
  {<<HexString(h)>> \o (IF ext = "" THEN <<>> ELSE <<ext>>) : h \in HexDraws}

\* C16: the public filename of a success is a function of the random draw and the
\* detected extension alone: it is the draw's hex text followed by the extension,
\* and holds neither the request's url nor the staged file's name or prefix.
C16_PublicNameIsFresh ==
  \A r \in Requests :
    Succeeded(r) =>
      /\ response[r].filename \in FreshNames(DetectedExt(r))
      /\ ~Includes(response[r].filename, params[r].url)
      /\ ~IsTemp(response[r].filename)
      /\ response[r].method = "yt-dlp" => response[r].filename # loc[r].result.name
      /\ response[r].method = "yt-dlp-image" => response[r].filename # loc[r].imageFirst.name

C16_Witness ==
  \E r \in Requests :
    /\ Succeeded(r) /\ response[r].method = "yt-dlp"
    /\ params[r].url = "https://x.example/only images/1"

\* The documented format selection, by descriptor extension and merge tool.
DocumentedFormat(ext, mergeTool) ==
  IF ext \in {"jpg", "png", "webp"} THEN "best"
  ELSE IF mergeTool
    THEN "bestvideo[height<=1080][ext=mp4]+bestaudio[ext=m4a]/bestvideo[height<=1080]+bestaudio/best[height<=1080]/best"
    ELSE "best[height<=1080]/best"

\* C17: the format handed to the tool is the documented function of the
\* descriptor's extension and the merge tool's presence, and the command line
\* holds the merge-to-mp4 instruction exactly when the merge tool is present.
C17_FormatSelectionIsDocumented ==
  (call.fn = "downloadWithYtDlp" /\ call.done) =>
    /\ call.result[2] = "--format"
    /\ call.result[3] = DocumentedFormat(call.arg.info.ext, call.arg.hasFFmpeg)
    /\ Includes(call.result, "--merge-output-format mp4") <=> call.arg.hasFFmpeg

C17_Witness ==
  /\ call.fn = "downloadWithYtDlp" /\ call.done
  /\ call.arg.info.ext = "webp" /\ call.arg.hasFFmpeg
  /\ call.result[3] = "best"

\* C18: a success of the extraction stage reports mediaType video exactly when the
\* final file's extension, in lower case, is one of mp4, mov, webm, avi, mkv, and
\* image for every other extension and for none; the public filename ends in the
\* staged file's extension.
C18_MediaTypeFromExtension ==
  \A r \in Requests :
    (Succeeded(r) /\ response[r].method = "yt-dlp") =>
      /\ response[r].mediaType \in {"video", "image"}
      /\ response[r].mediaType = "video" <=>
           LowerExt(Extname(response[r].filename)) \in {".mp4", ".mov", ".webm", ".avi", ".mkv"}
      /\ Extname(response[r].filename) = Extname(loc[r].result.name)
      /\ Extname(loc[r].result.name) = "" => Len(response[r].filename) = 1

C18_Witness ==
  \E r \in Requests :
    /\ Succeeded(r) /\ response[r].method = "yt-dlp"
    /\ Extname(loc[r].result.name) = ".MKV" /\ response[r].mediaType = "video"

\* C19: a success of the image fallback moved the first staged image to the public
\* name and unlinked every other staged image; an image whose unlink failed is
\* left where it was and the request answers success with method yt-dlp-image all
\* the same.
C19_FirstImagePromotedRestDeleted ==
  \A r \in Requests :
    (pc[r] = "Done" /\ loc[r].imageFirst # NoPath /\ Last(stages[r]) = "TryImageFallback") =>
      /\ Succeeded(r) /\ response[r].method = "yt-dlp-image"
      /\ ~Exists(loc[r].imageFirst)
      /\ Exists(Join(mediaDir, response[r].filename))
      /\ fs[Join(mediaDir, response[r].filename)].size = response[r].size
      /\ \A p \in loc[r].imageRest : Exists(p) <=> p \in loc[r].unlinkFailed

C19_Witness ==
  \E r \in Requests :
    /\ Succeeded(r) /\ response[r].method = "yt-dlp-image"
    /\ loc[r].unlinkFailed # {} /\ loc[r].imageRest # loc[r].unlinkFailed

AltCommandsRun(r) == {i \in 1..Len(execs[r]) : execs[r][i][2] = "--no-video"}

PrimaryCommandsRun(r) == {i \in 1..Len(execs[r]) : execs[r][i][2] = "--format best"}

ImageStageFailed(r) == StartsWith(loc[r].ytDlpError.message, <<"Failed to download images: ">>)

\* C20: in the image stage the alternate invocation runs exactly when the primary
\* one failed, once, after it; the files collected are all the files with the
\* generated prefix, and there is at least one; when none is found the stage fails
\* with "No images found in post" (status 502), and after a failed image stage the
\* request is in the direct fetch.
C20_AlternateOnceThenCollect ==
  \A r \in Requests :
    /\ Cardinality(PrimaryCommandsRun(r)) <= 1 /\ Cardinality(AltCommandsRun(r)) <= 1
    /\ \A i \in AltCommandsRun(r) : \E j \in PrimaryCommandsRun(r) : j < i
    /\ pc[r] # "ImageAlt" => ((AltCommandsRun(r) # {}) <=> loc[r].primaryFailed)
    /\ pc[r] = "ImageAlt" => (loc[r].primaryFailed /\ AltCommandsRun(r) = {})
    /\ pc[r] = "ImagePromote" =>
         /\ loc[r].imageFirst # NoPath
         /\ {loc[r].imageFirst} \cup loc[r].imageRest = Matching(mediaDir, loc[r].imageTemp)
    /\ (pc[r] = "Done" /\ loc[r].imageTemp # <<>> /\ loc[r].imageFirst = NoPath) => ImageStageFailed(r)
    /\ ImageStageFailed(r) =>
         /\ loc[r].ytDlpError.statusCode = 502
         /\ loc[r].imageFirst = NoPath
         /\ Includes(stages[r], "TryDirectFetch") /\ pc[r] \in {"Direct", "Done"}
         /\ pc[r] = "Done" => fetches[r] # <<>>

C20_Witness ==
  \E r \in Requests :
    /\ Includes(loc[r].ytDlpError.message, "No images found in post")
    /\ AltCommandsRun(r) # {} /\ fetches[r] # <<>>

\* C21: within a request no command line that failed is run a second time: two
\* invocations with the same command line are lookups that succeeded.
C21_NoFailedCommandRunAgain ==
  \A r \in Requests :
    \A i, j \in 1..Len(execs[r]) :
      (i < j /\ execs[r][i] = execs[r][j]) => (execs[r][i] = WhichCommand /\ host.which)

SomeStageFailed(r) == loc[r].videoError # NoError \/ loc[r].ytDlpError # NoError

\* C23: when a stage of a request failed, none of the files the tool wrote under
\* that request's temp prefixes is left when the response is sent, whether the
\* response is a success or a failure.
C23_FailedStageFilesRemoved ==
  \A r \in Requests :
    (Sent(r) /\ SomeStageFailed(r)) => StagedBy(r) = {}

\* The error exec rejects with when it kills the child at the timeout: the
\* command line and an empty diagnostic stream.
TimedOut(err) == err.stderr = <<>> /\ StartsWith(err.message, <<"Command failed: ">>)

\* The stage a generic failure of the extraction stage leads to for this request.
AfterGenericFailure(r) ==
  IF params[r].downloadImages = "true" \/ Includes(<<params[r].url>>, "only images")
    THEN "TryImageFallback"
    ELSE "TryDirectFetch"

\* The alternate image invocation was killed at its timeout.
AltTimedOut(r) ==
  /\ ImageStageFailed(r)
  /\ Contains(loc[r].ytDlpError.message, <<"Command failed: ">>)
  /\ Last(loc[r].ytDlpError.message) = params[r].url

C25_EveryRequestIsAnswered ==
  \A r \in Requests : (pc[r] = "Start") ~> (pc[r] = "Done" /\ Sent(r))

\* The positions in the request's invocations of the commands that satisfy a test.
RunsOf(r, Test(_)) == {i \in 1..Len(execs[r]) : Test(execs[r][i])}

IsYtDlpProbe(cmd) == Len(cmd) = 2 /\ cmd[2] = "--version"

IsFFmpegProbe(cmd) == cmd[1] = "ffmpeg"

\* An invocation of the extraction tool that is not its probe.
IsExtraction(cmd) == cmd[2] \in {"--dump-json", "--format", "--format best", "--no-video"}

\* The download invocation: the one that carries the chosen format string.
IsDownload(cmd) == Len(cmd) > 2 /\ cmd[2] = "--format"

\* C26: in one request each capability probe runs at most once, the probe of
\* the extraction tool has answered before any extraction invocation, and the
\* probe of the merge tool has answered before the download invocation, whose
\* format string and merge option follow that answer.
C26_ProbesOnceAndFirst ==
  \A r \in Requests :
    /\ Cardinality(RunsOf(r, IsYtDlpProbe)) <= 1
    /\ Cardinality(RunsOf(r, IsFFmpegProbe)) <= 1
    /\ \A i \in RunsOf(r, IsExtraction) :
         /\ \E j \in RunsOf(r, IsYtDlpProbe) : j < i
         /\ loc[r].ytDlpAvailable
    /\ \A i \in RunsOf(r, IsDownload) :
         /\ \E j \in RunsOf(r, IsFFmpegProbe) : j < i
         /\ execs[r][i][4] = "--merge-output-format mp4" <=> loc[r].hasFFmpeg
    /\ pc[r] = "Download" => RunsOf(r, IsFFmpegProbe) # {}

C26_Witness ==
  \E r \in Requests :
    /\ RunsOf(r, IsDownload) # {} /\ loc[r].hasFFmpeg
    /\ \E i \in RunsOf(r, IsExtraction) : execs[r][i][2] = "--format best"
    /\ Sent(r)

\* The staged files that leave their path in this step: renamed or unlinked.
Taken == {p \in DOMAIN fs \ DOMAIN fs' : fs[p].via \in {"download", "image"}}

\* The request that takes this step.
Stepping(r) == pc'[r] # pc[r]

\* C27: with pairwise distinct temp prefixes, under every interleaving of two
\* requests in the same directory, each staged file a request renames to its
\* final name or unlinks as a leftover image was written by an invocation of
\* that same request.
C27_OnlyOwnStagedFilesTaken ==
  [][\A r \in Requests : Stepping(r) => \A p \in Taken : fs[p].by = r]_vars

\* One request has promoted its first image and unlinked the other one while
\* the file the other request's download staged waits to be promoted.
C27_Witness ==
  \E r, other \in Requests :
    /\ r # other
    /\ Succeeded(r) /\ response[r].method = "yt-dlp-image" /\ loc[r].imageRest # {}
    /\ loc[r].imageRest \cap DOMAIN fs = {}
    /\ pc[other] = "Promote" /\ Exists(loc[other].result)

\* C28: in a writable directory the write check of downloadWithYtDlp passes for
\* every request under every interleaving: no request's extraction stage ends
\* with the error of the write check.
C28_WriteCheckPassesWhenWritable ==
  \A r \in Requests :
    (host.writable /\ mediaDir \in dirs) => loc[r].rawError # NoWritePermission

VideoExtensions == {".mp4", ".mov", ".webm"}

\* C29: on the direct path the media type reported is "video" exactly when the
\* extension chosen from the same content type is a video extension.
C29_DirectMediaTypeAgreesWithExtension ==
  \A r \in Requests :
    (Succeeded(r) /\ response[r].method = "direct") =>
      (response[r].mediaType = "video" <=> Extname(response[r].filename) \in VideoExtensions)

\* C30: a success response names a file that exists in the public directory,
\* whose size is the size reported and is not zero, whatever the method.
C30_SuccessNamesANonEmptyFile ==
  \A r \in Requests :
    Succeeded(r) =>
      LET filePath == Join(mediaDir, response[r].filename) IN
      /\ Exists(filePath)
      /\ fs[filePath].size = response[r].size
      /\ response[r].size > 0

====
